---------------------------- MODULE Spec2Model ----------------------------
(***************************************************************************)
(* Camera Feed Viewer (src/App.tsx): the capture-session lifecycle         *)
(* (permission probe, device enumeration, stream acquisition, teardown)    *)
(* and the fullscreen mirror of the App component.                         *)
(*                                                                         *)
(* A MediaStream is identified by the index of the getUserMedia request    *)
(* that delivered it; 0 stands for null.  An empty string stands for the   *)
(* empty selectedDeviceId.                                                 *)
(***************************************************************************)
EXTENDS Integers, Sequences, FiniteSets

\* ------------------------------------------------------------------ bounds
\* getUserMedia requests issued by the stream effect in one run
MaxRequests == 2
\* length of the list enumerateDevices() returns
MaxDevices == 2
\* fullscreen events recorded in fsLog
MaxLog == 6

\* --------------------------------------------------------------- constants
RESOLUTIONS ==
  << [width |-> 640,  height |-> 480],
     [width |-> 1280, height |-> 720],
     [width |-> 1920, height |-> 1080],
     [width |-> 3840, height |-> 2160] >>

\* The five messages passed to setError, and null.
NoError == "null"
PermissionDenied == "Camera access was denied."
CouldNotAccess == "Could not access camera devices."
UnknownError == "An unknown error occurred while accessing media devices."
NoDevicesFound == "No camera devices found."
Unsupported == "Your browser does not support camera access."
StreamStartFailed == "Error starting video stream."

\* What the platform can enumerate: two cameras and a microphone.
PlatformDevices ==
  { [deviceId |-> "camA", kind |-> "videoinput"],
    [deviceId |-> "camB", kind |-> "videoinput"],
    [deviceId |-> "mic",  kind |-> "audioinput"] }

\* Values a rejected promise can carry: an Error with a name, or a non-Error.
Rejections ==
  { [isError |-> TRUE,  name |-> "NotAllowedError"],
    [isError |-> TRUE,  name |-> "PermissionDeniedError"],
    [isError |-> TRUE,  name |-> "NotFoundError"],
    [isError |-> FALSE, name |-> "NotAllowedError"] }

NoRejection == [isError |-> FALSE, name |-> "none"]

\* The platform refused camera permission.
IsPermissionRefusal(err) ==
  err.isError /\ err.name \in {"NotAllowedError", "PermissionDeniedError"}

\* ------------------------------------------------------------------- state
VARIABLES
  lifecycle,          \* "constructed" | "mounted" | "unmounted"
  supported,          \* navigator.mediaDevices && getUserMedia exist
  probe,              \* getInitialPermissionAndDevices: "idle" | "gum" | "enum" | "done" | "failed"
  probeErr,           \* the value caught by the probe's catch
  enumerated,         \* allDevices, as enumerateDevices() resolved
  devices,            \* useState devices
  selectedDeviceId,   \* useState selectedDeviceId
  selectedResolution, \* useState selectedResolution
  error,              \* useState error
  hasStream,          \* useState hasStream
  streamRef,          \* streamRef.current
  srcObject,          \* videoRef.current.srcObject
  requests,           \* getUserMedia(constraints) calls of the stream effect
  streamErr,          \* the value caught last by getStream's catch
  live,               \* streams with tracks that were not stopped
  fullscreenElement,  \* !!document.fullscreenElement
  exitSupported,      \* !!document.exitFullscreen
  isFullscreen,       \* useState isFullscreen
  fsQueue,            \* fullscreen requests the platform has not answered
  fsEvents,           \* fullscreenchange events not yet dispatched
  fsLog               \* history: what happened to the fullscreen controller

appVars == << lifecycle, supported, probe, probeErr, enumerated, devices,
              selectedDeviceId, selectedResolution, error, hasStream,
              streamRef, srcObject, requests, streamErr, live >>

fsVars == << fullscreenElement, exitSupported, isFullscreen, fsQueue,
             fsEvents, fsLog >>

vars == << appVars, fsVars >>


\* ---------------------------------------------------------------- platform
Range(q) == { q[i] : i \in DOMAIN q }

RECURSIVE ListsUpTo(_, _)
\* The lists of distinct devices of S of length at most n.
ListsUpTo(S, n) ==
  IF n = 0 THEN { << >> }
  ELSE LET shorter == ListsUpTo(S, n - 1)
       IN shorter \cup
          UNION { { Append(q, d) : d \in S \ Range(q) } :
                  q \in { r \in shorter : Len(r) = n - 1 } }

\* What enumerateDevices() may resolve to.
DeviceLists == ListsUpTo(PlatformDevices, MaxDevices)

\* --------------------------------------------------------- pure functions
\* allDevices.filter(device => device.kind === 'videoinput')
VideoInputs_NoFilter(allDevices) == allDevices

VideoInputs(allDevices) ==
  SelectSeq(allDevices, LAMBDA device : device.kind = "videoinput")

\* The catch block of getInitialPermissionAndDevices: the message for err.
ProbeErrorMessage_OnlyNotAllowed(err) ==
  IF err.isError
    THEN IF err.name = "NotAllowedError"
           THEN PermissionDenied
           ELSE CouldNotAccess
    ELSE UnknownError

ProbeErrorMessage(err) ==
  IF err.isError
    THEN IF err.name = "NotAllowedError" \/ err.name = "PermissionDeniedError"
           THEN PermissionDenied
           ELSE CouldNotAccess
    ELSE UnknownError

\* streamRef.current.getTracks().forEach(track => track.stop()), guarded by
\* if (streamRef.current): the live streams afterwards.
StopTracks(ref, lv) == IF ref # 0 THEN lv \ {ref} ELSE lv

\* disabled={!!error || devices.length === 0} of both selectors
ControlsDisabled == error # NoError \/ Len(devices) = 0

\* hasStream={hasStream && !error}: the VideoPlayer shows the feed and the
\* fullscreen button.
ShowsStream == lifecycle = "mounted" /\ hasStream /\ error = NoError

\* The options of the device selector.
DeviceOptions == { devices[i].deviceId : i \in DOMAIN devices }

\* A request not yet answered is stale once a newer target was requested
\* (history field: no code reads it).
MarkStale(reqs) ==
  [ i \in DOMAIN reqs |->
      IF reqs[i].status = "pending" THEN [reqs[i] EXCEPT !.stale = TRUE]
      ELSE reqs[i] ]

\* The stream effect re-run for the target (deviceId, resolution): the old
\* effect's cleanup, then the effect body.
StreamEffect(deviceId, resolution) ==
  LET afterCleanup == StopTracks(streamRef, live)
      afterBody    == StopTracks(streamRef, afterCleanup)
  IN /\ live' = afterBody
     /\ requests' =
          IF deviceId # ""
            THEN Append(MarkStale(requests),
                        [deviceId |-> deviceId,
                         width    |-> resolution.width,
                         height   |-> resolution.height,
                         status   |-> "pending",
                         stale    |-> FALSE])
            ELSE requests

\* ------------------------------------------------------------------ Init
InitApp ==
  /\ lifecycle = "constructed"
  /\ probe = "idle"
  /\ probeErr = NoRejection
  /\ enumerated = << >>
  /\ devices = << >>
  /\ selectedDeviceId = ""
  /\ selectedResolution = RESOLUTIONS[2]
  /\ error = NoError
  /\ hasStream = FALSE
  /\ streamRef = 0
  /\ srcObject = 0
  /\ requests = << >>
  /\ streamErr = NoRejection
  /\ live = {}

InitFullscreen ==
  /\ fullscreenElement = FALSE
  /\ isFullscreen = FALSE
  /\ fsQueue = << >>
  /\ fsEvents = 0
  /\ fsLog = << >>

Init ==
  /\ InitApp
  /\ InitFullscreen
  /\ supported \in BOOLEAN
  /\ exitSupported = TRUE

\* --------------------------------------------------------------- actions
\* The first commit: the three effects run once.
Mount ==
  /\ lifecycle = "constructed"
  /\ lifecycle' = "mounted"
  /\ IF supported
       THEN probe' = "gum" /\ error' = error
       ELSE probe' = probe /\ error' = Unsupported
  \* stream effect: streamRef.current is null and selectedDeviceId is empty
  /\ StreamEffect(selectedDeviceId, selectedResolution)
  /\ UNCHANGED << supported, probeErr, enumerated, devices, selectedDeviceId,
                  selectedResolution, hasStream, streamRef, srcObject,
                  streamErr >>
  /\ UNCHANGED fsVars

\* await getUserMedia({video: true}) resolved: the temporary stream's tracks
\* are stopped at once, then enumerateDevices() is awaited.
ProbeGranted ==
  /\ probe = "gum"
  /\ probe' = "enum"
  /\ UNCHANGED << lifecycle, supported, probeErr, enumerated, devices,
                  selectedDeviceId, selectedResolution, error, hasStream,
                  streamRef, srcObject, requests, streamErr, live >>
  /\ UNCHANGED fsVars

\* Either await of the probe rejected: the catch block.  State updates of an
\* unmounted component are dropped.
ProbeRejected(err) ==
  /\ probe \in {"gum", "enum"}
  /\ probe' = "failed"
  /\ probeErr' = err
  /\ error' = IF lifecycle = "mounted" THEN ProbeErrorMessage(err) ELSE error
  /\ UNCHANGED << lifecycle, supported, enumerated, devices, selectedDeviceId,
                  selectedResolution, hasStream, streamRef, srcObject,
                  requests, streamErr, live >>
  /\ UNCHANGED fsVars

\* await enumerateDevices() resolved with allDevices.
EnumerateResolved(allDevices) ==
  /\ probe = "enum"
  /\ probe' = "done"
  /\ enumerated' = allDevices
  /\ LET videoDevices == VideoInputs(allDevices)
     IN IF lifecycle = "mounted"
          THEN /\ devices' = videoDevices
               /\ IF Len(videoDevices) > 0
                    THEN /\ selectedDeviceId' = videoDevices[1].deviceId
                         /\ error' = NoError
                         \* the dependency changed: the stream effect re-runs
                         /\ StreamEffect(videoDevices[1].deviceId,
                                         selectedResolution)
                    ELSE /\ error' = NoDevicesFound
                         /\ UNCHANGED << selectedDeviceId, requests, live >>
          ELSE UNCHANGED << devices, selectedDeviceId, error, requests, live >>
  /\ UNCHANGED << lifecycle, supported, probeErr, selectedResolution,
                  hasStream, streamRef, srcObject, streamErr >>
  /\ UNCHANGED fsVars

\* The user picks another camera; a disabled select fires no change event.
handleDeviceChange(value) ==
  /\ lifecycle = "mounted"
  /\ ~ControlsDisabled
  /\ value \in DeviceOptions
  /\ value # selectedDeviceId
  /\ Len(requests) < MaxRequests
  /\ selectedDeviceId' = value
  /\ StreamEffect(value, selectedResolution)
  /\ UNCHANGED << lifecycle, supported, probe, probeErr, enumerated, devices,
                  selectedResolution, error, hasStream, streamRef, srcObject,
                  streamErr >>
  /\ UNCHANGED fsVars

\* The user picks another resolution.
handleResolutionChange(resolutionIndex) ==
  /\ lifecycle = "mounted"
  /\ ~ControlsDisabled
  /\ resolutionIndex \in DOMAIN RESOLUTIONS
  /\ RESOLUTIONS[resolutionIndex] # selectedResolution
  /\ Len(requests) < MaxRequests
  /\ selectedResolution' = RESOLUTIONS[resolutionIndex]
  /\ StreamEffect(selectedDeviceId, RESOLUTIONS[resolutionIndex])
  /\ UNCHANGED << lifecycle, supported, probe, probeErr, enumerated, devices,
                  selectedDeviceId, error, hasStream, streamRef, srcObject,
                  streamErr >>
  /\ UNCHANGED fsVars

\* getStream: await getUserMedia(constraints) of request i resolved.
\* videoRef.current is the video element while mounted, null afterwards.
GetStreamResolved(i) ==
  /\ i \in DOMAIN requests
  /\ requests[i].status = "pending"
  /\ requests' = [requests EXCEPT ![i].status = "resolved"]
  /\ live' = live \cup {i}
  /\ streamRef' = i
  /\ IF lifecycle = "mounted"
       THEN srcObject' = i /\ hasStream' = TRUE
       ELSE UNCHANGED << srcObject, hasStream >>
  /\ UNCHANGED << lifecycle, supported, probe, probeErr, enumerated, devices,
                  selectedDeviceId, selectedResolution, error, streamErr >>
  /\ UNCHANGED fsVars

\* getStream: the request rejected with err and keeps hasStream as it was.
GetStreamRejected_KeepsFlag(i, err) ==
  /\ i \in DOMAIN requests
  /\ requests[i].status = "pending"
  /\ requests' = [requests EXCEPT ![i].status = "rejected"]
  /\ streamErr' = err
  /\ error' = IF lifecycle = "mounted" THEN StreamStartFailed ELSE error
  /\ UNCHANGED << lifecycle, supported, probe, probeErr, enumerated, devices,
                  selectedDeviceId, selectedResolution, hasStream, streamRef,
                  srcObject, live >>
  /\ UNCHANGED fsVars

\* getStream: await getUserMedia(constraints) of request i rejected with err.
GetStreamRejected(i, err) ==
  /\ i \in DOMAIN requests
  /\ requests[i].status = "pending"
  /\ requests' = [requests EXCEPT ![i].status = "rejected"]
  /\ streamErr' = err
  /\ IF lifecycle = "mounted"
       THEN error' = StreamStartFailed /\ hasStream' = FALSE
       ELSE UNCHANGED << error, hasStream >>
  /\ UNCHANGED << lifecycle, supported, probe, probeErr, enumerated, devices,
                  selectedDeviceId, selectedResolution, streamRef, srcObject,
                  live >>
  /\ UNCHANGED fsVars

\* The component is unmounted: the stream effect's cleanup stops the held
\* stream's tracks, the fullscreenchange listener is removed.
Unmount ==
  /\ lifecycle = "mounted"
  /\ lifecycle' = "unmounted"
  /\ live' = StopTracks(streamRef, live)
  /\ UNCHANGED << supported, probe, probeErr, enumerated, devices,
                  selectedDeviceId, selectedResolution, error, hasStream,
                  streamRef, srcObject, requests, streamErr >>
  /\ UNCHANGED fsVars

Next ==
  \/ Mount
  \/ ProbeGranted
  \/ \E err \in Rejections : ProbeRejected(err)
  \/ \E allDevices \in DeviceLists : EnumerateResolved(allDevices)
  \/ \E value \in DeviceOptions : handleDeviceChange(value)
  \/ \E resolutionIndex \in DOMAIN RESOLUTIONS :
       handleResolutionChange(resolutionIndex)
  \/ \E i \in DOMAIN requests : GetStreamResolved(i)
  \/ \E i \in DOMAIN requests, err \in Rejections : GetStreamRejected(i, err)
  \/ Unmount

Spec == Init /\ [][Next]_vars

\* ------------------------------------------------- fullscreen controller
\* The mirror agrees with the platform and nothing is in flight.
Quiescent ==
  /\ isFullscreen = fullscreenElement
  /\ fsQueue = << >>
  /\ fsEvents = 0

\* History: the event, the mirror after it, and whether the controller was
\* quiescent before it.
Logged(ev) ==
  /\ Len(fsLog) < MaxLog
  /\ fsLog' = Append(fsLog, [ev |-> ev, mirror |-> isFullscreen',
                             quiet |-> Quiescent])

\* The click on the fullscreen button, which VideoPlayer renders only with
\* hasStream; playerContainerRef.current is the container while mounted.
toggleFullscreen ==
  /\ ShowsStream
  /\ fsQueue' =
       IF ~fullscreenElement
         THEN Append(fsQueue, "enter")
         ELSE IF exitSupported THEN Append(fsQueue, "exit") ELSE fsQueue
  /\ UNCHANGED << fullscreenElement, exitSupported, isFullscreen, fsEvents >>
  /\ Logged("toggle")
  /\ UNCHANGED appVars

\* The platform grants requestFullscreen(): the container becomes the
\* fullscreen element and a fullscreenchange event is queued, unless it
\* already is the fullscreen element.
PlatformEnterGranted ==
  /\ fsQueue # << >> /\ Head(fsQueue) = "enter"
  /\ fsQueue' = Tail(fsQueue)
  /\ IF ~fullscreenElement
       THEN fullscreenElement' = TRUE /\ fsEvents' = fsEvents + 1
       ELSE UNCHANGED << fullscreenElement, fsEvents >>
  /\ UNCHANGED << exitSupported, isFullscreen, fsLog >>
  /\ UNCHANGED appVars

\* requestFullscreen() rejects: the catch logs and changes nothing.
PlatformEnterRejected ==
  /\ fsQueue # << >> /\ Head(fsQueue) = "enter"
  /\ fsQueue' = Tail(fsQueue)
  /\ UNCHANGED << fullscreenElement, exitSupported, isFullscreen, fsEvents >>
  /\ Logged("reject")
  /\ UNCHANGED appVars

\* The platform performs document.exitFullscreen().
PlatformExit ==
  /\ fsQueue # << >> /\ Head(fsQueue) = "exit"
  /\ fsQueue' = Tail(fsQueue)
  /\ IF fullscreenElement
       THEN fullscreenElement' = FALSE /\ fsEvents' = fsEvents + 1
       ELSE UNCHANGED << fullscreenElement, fsEvents >>
  /\ UNCHANGED << exitSupported, isFullscreen, fsLog >>
  /\ UNCHANGED appVars

\* The user leaves fullscreen with the escape key.
PlatformEscape ==
  /\ fullscreenElement
  /\ fullscreenElement' = FALSE
  /\ fsEvents' = fsEvents + 1
  /\ UNCHANGED << exitSupported, isFullscreen, fsQueue >>
  /\ Logged("escape")
  /\ UNCHANGED appVars

\* setIsFullscreen(true) whatever the platform reports.
handleFullscreenChange_Stuck == isFullscreen' = TRUE

\* setIsFullscreen(!!document.fullscreenElement)
handleFullscreenChange == isFullscreen' = fullscreenElement

\* A queued fullscreenchange event is dispatched to the listener the third
\* effect registered and its cleanup removed.
DispatchFullscreenChange ==
  /\ fsEvents > 0
  /\ fsEvents' = fsEvents - 1
  /\ IF lifecycle = "mounted"
       THEN handleFullscreenChange /\ Logged("notify")
       ELSE UNCHANGED << isFullscreen, fsLog >>
  /\ UNCHANGED << fullscreenElement, exitSupported, fsQueue >>
  /\ UNCHANGED appVars

\* The App with camera "camA" streaming at 720p.
InitStreaming ==
  /\ lifecycle = "mounted"
  /\ supported = TRUE
  /\ probe = "done"
  /\ probeErr = NoRejection
  /\ enumerated = << [deviceId |-> "camA", kind |-> "videoinput"] >>
  /\ devices = enumerated
  /\ selectedDeviceId = "camA"
  /\ selectedResolution = RESOLUTIONS[2]
  /\ error = NoError
  /\ hasStream = TRUE
  /\ streamRef = 1
  /\ srcObject = 1
  /\ requests = << [deviceId |-> "camA", width |-> 1280, height |-> 720,
                    status |-> "resolved", stale |-> FALSE] >>
  /\ streamErr = NoRejection
  /\ live = {1}

InitFS ==
  /\ InitStreaming
  /\ InitFullscreen
  /\ exitSupported \in BOOLEAN

NextFS ==
  \/ toggleFullscreen
  \/ PlatformEnterGranted
  \/ PlatformEnterRejected
  \/ PlatformExit
  \/ PlatformEscape
  \/ DispatchFullscreenChange
  \/ Unmount

SpecFS == InitFS /\ [][NextFS]_vars

\* ---------------------------------------------------------------- claims
Last == Len(requests)

\* Request i was pending and is rejected in this step, the App mounted.
RejectedNow(i) ==
  /\ lifecycle = "mounted"
  /\ requests[i].status = "pending"
  /\ requests'[i].status = "rejected"

\* The id of the first video input of an enumeration, "" when it has none.
FirstVideoInputId(allDevices) ==
  LET video == { i \in DOMAIN allDevices : allDevices[i].kind = "videoinput" }
  IN IF video = {} THEN ""
     ELSE allDevices[CHOOSE i \in video : \A k \in video : i <= k].deviceId

\* C1: at every reachable state at most one acquired stream has tracks that
\* were not stopped.
C1_AtMostOneLiveStream == Cardinality(live) <= 1

\* C2: a stream delivered for a target that was superseded while its
\* acquisition was pending has its tracks stopped and is never bound to the
\* video surface, and once it and the acquisition for the newest target have
\* both resolved, the held and the bound stream are the newest target's.
C2_StaleResultNotCommitted ==
  /\ \A i \in DOMAIN requests :
       (requests[i].stale /\ requests[i].status = "resolved")
         => (i \notin live /\ srcObject # i)
  /\ ( /\ lifecycle = "mounted"
       /\ Last >= 2
       /\ requests[Last - 1].stale
       /\ requests[Last - 1].status = "resolved"
       /\ requests[Last].status = "resolved" )
     => (streamRef = Last /\ srcObject = Last)

\* C3: unmounting the App while a stream is active leaves no stream with
\* unstopped tracks.
C3_UnmountLeavesNoLiveTrack ==
  [][ ( /\ lifecycle = "mounted"
        /\ lifecycle' = "unmounted"
        /\ streamRef \in live )
      => live' = {} ]_vars

\* C4 as claimed: a permission refusal, on the probe or on a later stream
\* acquisition, is reported as the permission-denied condition.
C4_RefusalAlwaysDenied ==
  [][ /\ ( /\ lifecycle = "mounted"
           /\ probe = "gum" /\ probe' = "failed"
           /\ IsPermissionRefusal(probeErr') )
         => error' = PermissionDenied
      /\ \A i \in DOMAIN requests :
           (RejectedNow(i) /\ IsPermissionRefusal(streamErr'))
             => error' = PermissionDenied ]_vars

\* C4 as amended: a permission refusal on the initial probe is reported as
\* the permission-denied condition, which no later step replaces; a refusal
\* on a later stream acquisition is reported as the generic
\* stream-start-failed condition.
C4_ProbeRefusalDenied ==
  [][ /\ ( /\ lifecycle = "mounted"
           /\ probe = "gum" /\ probe' = "failed"
           /\ IsPermissionRefusal(probeErr') )
         => error' = PermissionDenied
      /\ (error = PermissionDenied => error' = PermissionDenied)
      /\ \A i \in DOMAIN requests :
           (RejectedNow(i) /\ IsPermissionRefusal(streamErr'))
             => error' = StreamStartFailed ]_vars

\* The probe was refused and the denial is on display.
C4_Witness ==
  /\ lifecycle = "mounted"
  /\ probe = "failed"
  /\ probeErr = [isError |-> TRUE, name |-> "PermissionDeniedError"]
  /\ error = PermissionDenied

\* C5: when the enumeration resolves, a non-empty video-input set selects
\* the first enumerated video input and clears the error; an empty one
\* reports no-device-found and selects nothing.
C5_DefaultsToFirstVideoInput ==
  [][ (lifecycle = "mounted" /\ probe = "enum" /\ probe' = "done")
      => IF FirstVideoInputId(enumerated') # ""
           THEN /\ selectedDeviceId' = FirstVideoInputId(enumerated')
                /\ devices'[1].deviceId = selectedDeviceId'
                /\ error' = NoError
           ELSE /\ error' = NoDevicesFound
                /\ selectedDeviceId' = ""
                /\ devices' = << >> ]_vars

\* The enumeration listed the microphone first and the camera was selected.
C5_Witness ==
  /\ lifecycle = "mounted"
  /\ probe = "done"
  /\ Len(enumerated) = 2
  /\ enumerated[1].kind = "audioinput"
  /\ selectedDeviceId = enumerated[2].deviceId
  /\ error = NoError
  /\ Last = 1

\* The enumeration had no video input.
C5_WitnessEmpty ==
  /\ lifecycle = "mounted"
  /\ probe = "done"
  /\ FirstVideoInputId(enumerated) = ""
  /\ error = NoDevicesFound

\* C6: from a quiescent state, two toggles and the two notifications they
\* cause, with no rejection and no escape in between, leave the mirror at
\* the value it had before the first toggle.
C6_DoubleToggleRestoresMirror ==
  \A i \in DOMAIN fsLog : \A j \in DOMAIN fsLog :
    ( /\ i <= j
      /\ fsLog[i].ev = "toggle"
      /\ fsLog[i].quiet
      /\ fsLog[j].ev = "notify"
      /\ \A k \in i..j : fsLog[k].ev \in {"toggle", "notify"}
      /\ Cardinality({ k \in i..j : fsLog[k].ev = "toggle" }) = 2
      /\ Cardinality({ k \in i..j : fsLog[k].ev = "notify" }) = 2 )
    => fsLog[j].mirror = fsLog[i].mirror

\* Two toggles starting in fullscreen, both notified, and the mirror is back
\* at true.
C6_Witness ==
  \E i \in DOMAIN fsLog : \E j \in DOMAIN fsLog :
    /\ i <= j
    /\ fsLog[i].ev = "toggle"
    /\ fsLog[i].quiet
    /\ fsLog[i].mirror = TRUE
    /\ fsLog[j].ev = "notify"
    /\ \A k \in i..j : fsLog[k].ev \in {"toggle", "notify"}
    /\ Cardinality({ k \in i..j : fsLog[k].ev = "toggle" }) = 2
    /\ Cardinality({ k \in i..j : fsLog[k].ev = "notify" }) = 2
    /\ fsLog[j].mirror = TRUE

\* C7: a failed acquisition sets the stream-start error and clears
\* hasStream, and issues no request; a request is issued only by a step
\* that changes the selected device or resolution.
C7_FailureSetsErrorNoRetry ==
  [][ /\ \A i \in DOMAIN requests :
           RejectedNow(i)
             => /\ error' = StreamStartFailed
                /\ ~hasStream'
                /\ Len(requests') = Len(requests)
      /\ Len(requests') > Len(requests)
           => \/ selectedDeviceId' # selectedDeviceId
              \/ selectedResolution' # selectedResolution ]_vars

\* A stream was shown, the target changed and the new acquisition failed.
C7_Witness ==
  /\ lifecycle = "mounted"
  /\ Last = 2
  /\ requests[1].status = "resolved"
  /\ requests[2].status = "rejected"
  /\ error = StreamStartFailed
  /\ ~hasStream

\* C8: while an error is set, the held stream has no unstopped track.
C8_ErrorHoldsNoLiveStream ==
  (lifecycle = "mounted" /\ error # NoError) => streamRef \notin live

\* C9: after a stream-start failure the user can select a device or a
\* resolution again.
C9_ReselectAfterFailure ==
  (lifecycle = "mounted" /\ error = StreamStartFailed) => ~ControlsDisabled

\* C10: the View Surface shows the feed and the fullscreen button only when
\* the stream bound to the video element has unstopped tracks.
C10_ShownStreamIsLive ==
  ShowsStream => srcObject \in live

=============================================================================
